---------------------------- MODULE Spec2Model ----------------------------
(***************************************************************************)
(* wtlayout: the layout-to-command compiler (layout.py) and the tree       *)
(* walker with its template registry (app.py).                             *)
(*                                                                         *)
(* Python values are modelled as follows.                                  *)
(*   - An Action is a record with a "kind" field naming its class.         *)
(*   - None is NoneStr for the optional string fields, -1 for tab_color    *)
(*     and the empty sequence for the optional lists (process, weights):   *)
(*     the code only ever tests these lists for truthiness.                *)
(*   - A float split weight is the exact rational <<num, den>>; the        *)
(*     emitted token str(round(w, 4)) is computed from it by Round4 and    *)
(*     RatioStr.                                                           *)
(*   - A call that may raise returns [err, toks]: err = "none" and the     *)
(*     token list, or the name of the exception raised.                    *)
(***************************************************************************)
EXTENDS Integers, Sequences, FiniteSets, TLC

VARIABLES
    doc,        \* main: the parsed document (root element)
    stack,      \* _walk: the call stack, innermost frame last
    scopes,     \* ContextChainMap: the dicts allocated by new_child, by id
    pc,         \* the position of main (or of the layout driver)
    err,        \* the exception that ended main, or "none"
    result,     \* the Action tree (main: what _walk returned)
    sib,        \* what sibling_options() returned for the tab's group
    splits,     \* the split_weights that call computed, before rounding
    opts,       \* what options() returned for the tab's pane
    cmd,        \* what command() returned
    launched    \* how many times subprocess.run was called

vars == <<doc, stack, scopes, pc, err, result, sib, splits, opts, cmd, launched>>

-----------------------------------------------------------------------------
(* Bounds of the model *)

MaxPanes == 3
MaxWeight == 2
MaxNodes == 8
MaxTabs == 3
MaxDepth == 10

-----------------------------------------------------------------------------
(* Values *)

NoneStr == "<None>"

Ok(toks) == [err |-> "none", toks |-> toks]

Raise(e) == [err |-> e, toks |-> <<>>]

NotRun == [err |-> "notrun", toks |-> <<>>]

NoWeights == [err |-> "notrun", ws |-> <<>>]

Pane(title, dir, profile, process, color) ==
    [kind |-> "Pane", title |-> title, starting_directory |-> dir,
     profile |-> profile, process |-> process, tab_color |-> color]

PaneGroup(layout, panes, weights) ==
    [kind |-> "PaneGroup", layout |-> layout, panes |-> panes, weights |-> weights]

LayoutTab(pane) == [kind |-> "LayoutTab", pane |-> pane]

Window(subcmds) == [kind |-> "Window", subcmds |-> subcmds]

-----------------------------------------------------------------------------
(* layout.py: joining subcommands *)

RECURSIVE Flatten(_)
Flatten(ss) == IF Len(ss) = 0 THEN <<>> ELSE Head(ss) \o Flatten(Tail(ss))

RECURSIVE iterjoin_leading(_, _)
\* iterjoin with the separator before every item, the first included
iterjoin_leading(sep, items) ==
    IF Len(items) = 0 THEN <<>>
    ELSE <<sep, Head(items)>> \o iterjoin_leading(sep, Tail(items))

RECURSIVE iterjoin(_, _)
\* the items of a non-empty list with sep before every item after the first
iterjoin(sep, items) ==
    IF Len(items) = 1 THEN items
    ELSE <<Head(items), sep>> \o iterjoin(sep, Tail(items))

\* next(iterables) on an empty iterator raises StopIteration inside the
\* generator, which Python turns into RuntimeError
subcmd_join(cmds) ==
    IF Len(cmds) = 0 THEN Raise("RuntimeError")
    ELSE Ok(Flatten(iterjoin(<<";">>, cmds)))

\* s -> (s0,s1), (s1,s2), ..., (sN,None): the indices of the pairs, 0 for None
pairwise_longest(n) ==
    [i \in 1..n |-> <<i, IF i < n THEN i + 1 ELSE 0>>]

-----------------------------------------------------------------------------
(* layout.py: formatting *)

HexDigits == <<"0", "1", "2", "3", "4", "5", "6", "7",
               "8", "9", "a", "b", "c", "d", "e", "f">>

RECURSIVE Hex(_)
Hex(v) == IF v < 16 THEN HexDigits[v + 1]
          ELSE Hex(v \div 16) \o HexDigits[(v % 16) + 1]

RECURSIVE HexLen(_)
HexLen(v) == IF v < 16 THEN 1 ELSE 1 + HexLen(v \div 16)

RECURSIVE Zeros(_)
Zeros(n) == IF n <= 0 THEN "" ELSE "0" \o Zeros(n - 1)

\* "#{:0>6x}".format(v)
ColorStr(v) == "#" \o Zeros(6 - HexLen(v)) \o Hex(v)

\* round(a/b, 4) as a number of ten-thousandths, ties to even
Round4(w) ==
    LET n == 10000 * w[1]
        q == n \div w[2]
        r == n % w[2]
    IN  IF 2 * r < w[2] THEN q
        ELSE IF 2 * r > w[2] THEN q + 1
        ELSE IF q % 2 = 0 THEN q ELSE q + 1

RECURSIVE DecLen(_)
DecLen(v) == IF v < 10 THEN 1 ELSE 1 + DecLen(v \div 10)

\* the digits of v, zero-padded on the left to width w
Pad(v, w) == Zeros(w - DecLen(v)) \o ToString(v)

\* str() of the float t/10000, 0 <= t: the shortest decimal, at least one
\* fractional digit
RatioStr(t) ==
    LET f == t % 10000
        frac == IF f = 0 THEN "0"
                ELSE IF f % 1000 = 0 THEN Pad(f \div 1000, 1)
                ELSE IF f % 100 = 0 THEN Pad(f \div 100, 2)
                ELSE IF f % 10 = 0 THEN Pad(f \div 10, 3)
                ELSE Pad(f, 4)
    IN  ToString(t \div 10000) \o "." \o frac

-----------------------------------------------------------------------------
(* layout.py: Pane *)

PaneOptions(p) ==
    (IF p.title \notin {NoneStr, ""} THEN <<"--title", p.title>> ELSE <<>>)
    \o (IF p.starting_directory \notin {NoneStr, ""}
        THEN <<"-d", p.starting_directory>> ELSE <<>>)
    \o (IF p.profile \notin {NoneStr, ""} THEN <<"-p", p.profile>> ELSE <<>>)
    \o (IF p.tab_color \notin {-1, 0}
        THEN <<"--tabColor", ColorStr(p.tab_color)>> ELSE <<>>)
    \o p.process

-----------------------------------------------------------------------------
(* layout.py: PaneGroup *)

num_subpanes(a) == IF a.kind = "PaneGroup" THEN Len(a.panes) ELSE 1

RECURSIVE Root(_)
\* the deepest pane in the first position; [err, pane]
Root(a) ==
    IF a.kind = "Pane" THEN [err |-> "none", pane |-> a]
    ELSE IF a.kind = "PaneGroup"
         THEN IF Len(a.panes) = 0 THEN [err |-> "IndexError", pane |-> a]
              ELSE Root(a.panes[1])
    ELSE [err |-> "AttributeError", pane |-> a]

RootOptions(a) ==
    LET r == Root(a)
    IN  IF r.err = "none" THEN Ok(PaneOptions(r.pane)) ELSE Raise(r.err)

RECURSIVE SumFrom(_, _)
\* sum(weights[n:]), n 0-based
SumFrom(ws, n) == IF n >= Len(ws) THEN 0 ELSE ws[n + 1] + SumFrom(ws, n + 1)

\* the first exception in a list of results, or "none"
FirstErr(rs) ==
    IF \A i \in 1..Len(rs) : rs[i].err = "none" THEN "none"
    ELSE rs[CHOOSE i \in 1..Len(rs) :
                /\ rs[i].err # "none"
                /\ \A j \in 1..(i - 1) : rs[j].err = "none"].err

\* split_weights with every weight taken against the sum of all weights
split_weights_total(g) ==
    LET n == num_subpanes(g)
    IN  IF Len(g.weights) = 0
        THEN [err |-> "none",
              ws |-> [i \in 1..(n - 1) |-> <<n - i, n - i + 1>>]]
        ELSE [err |-> "none",
              ws |-> [i \in 1..(n - 1) |->
                        <<SumFrom(g.weights, 0) - g.weights[i],
                          SumFrom(g.weights, 0)>>]]

\* the list of split weights, or the exception computing it raises
split_weights(g) ==
    LET n == num_subpanes(g)
        \* weights[i] / sum(weights[i:]), i 0-based
        Term(i) ==
            IF i >= Len(g.weights) THEN [err |-> "IndexError"]
            ELSE IF SumFrom(g.weights, i) = 0 THEN [err |-> "ZeroDivisionError"]
            ELSE [err |-> "none"]
        terms == [i \in 1..(n - 1) |-> Term(i - 1)]
    IN  IF Len(g.weights) = 0
        THEN [err |-> "none",
              ws |-> [i \in 1..(n - 1) |-> <<n - i, n - i + 1>>]]
        ELSE IF FirstErr(terms) # "none"
        THEN [err |-> FirstErr(terms), ws |-> <<>>]
        ELSE [err |-> "none",
              ws |-> [i \in 1..(n - 1) |->
                        <<SumFrom(g.weights, i - 1) - g.weights[i],
                          SumFrom(g.weights, i - 1)>>]]

Orientation(g) == IF g.layout = "COLUMN" THEN "-H" ELSE "-V"

FocusPrev(g) == IF g.layout = "COLUMN" THEN "up" ELSE "left"

FocusNext(g) == IF g.layout = "COLUMN" THEN "down" ELSE "right"

\* the test that decides whether a pane's nested splits are performed
HasNested(a) == num_subpanes(a) > 1

\* LoopCommands with the nested splits performed before the next pane is
\* created
LoopCommands_nested_first(g, split, nested, has_next) ==
    (IF has_next THEN << <<"mf", FocusPrev(g)>> >> ELSE <<>>)
    \o <<nested>>
    \o (IF has_next THEN << <<"mf", FocusNext(g)>> >> ELSE <<>>)
    \o split

\* what one iteration of the loop appends: the split command creating the
\* next pane, then the previous pane's nested splits between two move-focus
\* commands (none when there is no next pane)
LoopCommands(g, split, nested, has_next) ==
    split
    \o (IF has_next THEN << <<"mf", FocusPrev(g)>> >> ELSE <<>>)
    \o <<nested>>
    \o (IF has_next THEN << <<"mf", FocusNext(g)>> >> ELSE <<>>)

RECURSIVE sibling_options(_)
sibling_options(g) ==
    LET sw == split_weights(g)
        n == num_subpanes(g)
        pairs == pairwise_longest(n)
        \* one iteration of the loop: [err, cmds]
        Step(i) ==
            LET pane_prev == g.panes[pairs[i][1]]
                has_next == pairs[i][2] # 0
                ro == IF has_next THEN RootOptions(g.panes[pairs[i][2]])
                      ELSE Ok(<<>>)
                split == IF has_next
                         THEN << <<"sp", Orientation(g), "-s",
                                   RatioStr(Round4(sw.ws[i]))>> \o ro.toks >>
                         ELSE <<>>
                nested == IF HasNested(pane_prev)
                          THEN sibling_options(pane_prev) ELSE Ok(<<>>)
            IN  IF ro.err # "none" THEN [err |-> ro.err, cmds |-> <<>>]
                ELSE IF pane_prev.kind \notin {"Pane", "PaneGroup"}
                THEN [err |-> "AttributeError", cmds |-> <<>>]
                ELSE IF nested.err # "none"
                THEN [err |-> nested.err, cmds |-> <<>>]
                ELSE IF ~HasNested(pane_prev)
                THEN [err |-> "none", cmds |-> split]
                ELSE [err |-> "none",
                      cmds |-> LoopCommands(g, split, nested.toks, has_next)]
        steps == [i \in 1..n |-> Step(i)]
    IN  IF sw.err # "none" THEN Raise(sw.err)
        ELSE IF FirstErr(steps) # "none" THEN Raise(FirstErr(steps))
        ELSE subcmd_join(Flatten([i \in 1..n |-> steps[i].cmds]))

options(a) ==
    IF a.kind = "Pane" THEN Ok(PaneOptions(a))
    ELSE IF a.kind # "PaneGroup" THEN Raise("AttributeError")
    ELSE IF Len(a.panes) = 0 THEN Raise("IndexError")
    ELSE LET first == RootOptions(a.panes[1])
             rest == sibling_options(a)
         IN  IF first.err # "none" THEN first
             ELSE IF rest.err # "none" THEN rest
             ELSE subcmd_join(<<first.toks, rest.toks>>)


LayoutTabCommand(t) ==
    LET o == options(t.pane)
    IN  IF o.err # "none" THEN o ELSE Ok(<<"nt">> \o o.toks)

RECURSIVE command(_)
command(a) ==
    IF a.kind = "LayoutTab" THEN LayoutTabCommand(a)
    ELSE IF a.kind = "Pane" THEN Raise("NotImplementedError")
    ELSE IF a.kind = "PaneGroup" THEN Raise("AttributeError")
    ELSE IF Len(a.subcmds) = 0 THEN Raise("IndexError")
    ELSE LET cs == [i \in 1..Len(a.subcmds) |-> command(a.subcmds[i])]
         IN  IF FirstErr(cs) # "none" THEN Raise(FirstErr(cs))
             ELSE subcmd_join([i \in 1..Len(cs) |->
                    IF i = 1 THEN <<"wt", "-w", "0">> \o cs[1].toks
                    ELSE cs[i].toks])

-----------------------------------------------------------------------------
(* The Action trees the layout compiler is applied to *)

Layouts == {"ROW", "COLUMN"}

\* the k-th leaf of a tree: its directory names it
Leaf(k) ==
    Pane(IF k % 2 = 0 THEN "t" \o ToString(k) ELSE NoneStr,
         "d" \o ToString(k),
         IF k % 3 = 0 THEN "prof" ELSE NoneStr,
         IF k % 3 = 1 THEN <<"cmd", "/k">> ELSE <<>>,
         IF k % 4 = 0 THEN 255 * k ELSE -1)

\* A shape is a tree without its panes' fields: [kids], a leaf having none.
LeafShape == [kids |-> <<>>]

RECURSIVE ShapeForests(_, _)
\* the sequences of shapes of m nodes in all, tab[j] being the shapes of j
\* nodes
ShapeForests(m, tab) ==
    IF m = 0 THEN {<<>>}
    ELSE UNION {{<<t>> \o r : <<t, r>> \in tab[j] \X ShapeForests(m - j, tab)} :
                j \in 1..m}

RECURSIVE ShapeTable(_)
\* the shapes of exactly j nodes, for every j in 1..n: a leaf, or a group
\* over a non-empty sequence of shapes
ShapeTable(n) ==
    IF n = 1 THEN [j \in 1..1 |-> {LeafShape}]
    ELSE LET tab == ShapeTable(n - 1)
         IN  [j \in 1..n |->
                IF j < n THEN tab[j]
                ELSE {[kids |-> f] : f \in ShapeForests(n - 1, tab)}]

RECURSIVE NumLeaves(_)
NumLeaves(a) ==
    IF Len(a.kids) = 0 THEN 1
    ELSE NumLeaves(a.kids[1])
         + (IF Len(a.kids) = 1 THEN 0 ELSE NumLeaves([kids |-> Tail(a.kids)]))

OtherLayout(l) == IF l = "ROW" THEN "COLUMN" ELSE "ROW"

RECURSIVE LeavesBefore(_, _)
\* the number of leaves of the first i - 1 members of a sequence of shapes
LeavesBefore(f, i) ==
    IF i = 1 THEN 0 ELSE LeavesBefore(f, i - 1) + NumLeaves(f[i - 1])

RECURSIVE TreeOf(_, _, _, _)
\* the tree of a shape: its leaves numbered from k in order, the layout
\* alternating from l downwards, every group unweighted or its panes
\* weighted by the number of leaves they hold
TreeOf(sh, k, l, wm) ==
    IF Len(sh.kids) = 0 THEN Leaf(k)
    ELSE PaneGroup(l,
            [i \in 1..Len(sh.kids) |->
                TreeOf(sh.kids[i], k + LeavesBefore(sh.kids, i), OtherLayout(l), wm)],
            IF wm = "leaves"
            THEN [i \in 1..Len(sh.kids) |-> NumLeaves(sh.kids[i])]
            ELSE <<>>)

\* the trees of at most MaxNodes panes and groups
Trees ==
    {TreeOf(sh, 1, l, wm) :
        <<sh, l, wm>> \in (UNION {ShapeTable(MaxNodes)[j] : j \in 1..MaxNodes})
                          \X Layouts \X {"none", "leaves"}}

\* the groups of single panes with every choice of positive weights
FlatWeighted ==
    UNION {{PaneGroup(l, [i \in 1..n |-> Leaf(i)], w) :
                <<l, w>> \in Layouts \X [1..n -> 1..MaxWeight]} :
           n \in 1..MaxPanes}

\* panes a tab may hold on its own
TabPanes ==
    {Pane(NoneStr, NoneStr, NoneStr, <<>>, -1), Leaf(1), Leaf(4),
     Pane(NoneStr, "d", NoneStr, <<"cmd", "/c", "a", ";", "b">>, -1)}

RECURSIVE SeqsUpTo(_, _)
\* the non-empty sequences over S of length <= n
SeqsUpTo(S, n) ==
    IF n = 0 THEN {}
    ELSE {<<x>> : x \in S} \cup
         {<<x>> \o r : <<x, r>> \in S \X SeqsUpTo(S, n - 1)}

\* a window of one tab holding a tree, or of several tabs of single panes
LayoutInputs ==
    {Window(<<LayoutTab(t)>>) :
        t \in FlatWeighted \cup Trees}
    \cup {Window([i \in 1..Len(ps) |-> LayoutTab(ps[i])]) :
              ps \in SeqsUpTo(TabPanes, MaxTabs)}

-----------------------------------------------------------------------------
(* The layout compiler applied to an Action tree *)

NoDoc == [tag |-> "none"]

\* the pane of the window's first tab
TabPane == result.subcmds[1].pane

LayoutInit ==
    /\ result \in LayoutInputs
    /\ pc = "layout"
    /\ sib = NotRun /\ opts = NotRun /\ cmd = NotRun
    /\ splits = NoWeights
    /\ doc = NoDoc /\ stack = <<>> /\ scopes = <<>>
    /\ err = "none" /\ launched = 0

ApplySiblingOptions ==
    /\ pc = "layout"
    /\ TabPane.kind = "PaneGroup"
    /\ sib = NotRun
    /\ sib' = sibling_options(TabPane)
    /\ splits' = split_weights(TabPane)
    /\ UNCHANGED <<doc, stack, scopes, pc, err, result, opts, cmd, launched>>

ApplyOptions ==
    /\ pc = "layout"
    /\ opts = NotRun
    /\ TabPane.kind = "PaneGroup" => sib # NotRun
    /\ opts' = options(TabPane)
    /\ UNCHANGED <<doc, stack, scopes, pc, err, result, sib, splits, cmd, launched>>

ApplyCommand ==
    /\ pc = "layout"
    /\ opts # NotRun
    /\ cmd = NotRun
    /\ cmd' = command(result)
    /\ UNCHANGED <<doc, stack, scopes, pc, err, result, sib, splits, opts, launched>>

LayoutNext == ApplySiblingOptions \/ ApplyOptions \/ ApplyCommand

LayoutSpec == LayoutInit /\ [][LayoutNext]_vars

-----------------------------------------------------------------------------
(* app.py: the parsed document *)

\* An attribute value is a text: a sequence of parts, each literal text or a
\* ${key} placeholder.  An element carries one value, or Absent, per key.
AttrKeys == {"name", "weights", "directory", "process", "d", "w"}

Absent == [present |-> FALSE, parts |-> <<>>]

Text(s) == [present |-> TRUE, parts |-> <<[ph |-> FALSE, s |-> s]>>]

Placeholder(k) == [present |-> TRUE, parts |-> <<[ph |-> TRUE, s |-> k]>>]

\* the attributes given by the record r
Attrs(r) == [k \in AttrKeys |-> IF k \in DOMAIN r THEN r[k] ELSE Absent]

NoAttrs == [k \in AttrKeys |-> Absent]

Element(tag, attrib, children) ==
    [tag |-> tag, attrib |-> attrib, children |-> children]

RECURSIVE RenderParts(_)
RenderParts(ps) ==
    IF Len(ps) = 0 THEN ""
    ELSE (IF Head(ps).ph THEN "${" \o Head(ps).s \o "}" ELSE Head(ps).s)
         \o RenderParts(Tail(ps))

\* element.attrib.get(key): the text of the attribute, or None
AttribGet(el, key) ==
    IF el.attrib[key].present THEN RenderParts(el.attrib[key].parts)
    ELSE NoneStr

-----------------------------------------------------------------------------
(* app.py: _process_template *)

\* string.Template(value).substitute(attrib): [err, value]
Substitute(value, attrib) ==
    IF \E i \in 1..Len(value.parts) :
            /\ value.parts[i].ph
            /\ ~(value.parts[i].s \in AttrKeys /\ attrib[value.parts[i].s].present)
    THEN [err |-> "KeyError", value |-> value]
    ELSE [err |-> "none",
          value |-> [present |-> TRUE,
                     parts |-> Flatten([i \in 1..Len(value.parts) |->
                                 IF value.parts[i].ph
                                 THEN attrib[value.parts[i].s].parts
                                 ELSE <<value.parts[i]>>])]]

RECURSIVE SubstituteAll(_, _)
\* every attribute value of every element of the subtree substituted:
\* [err, el]
SubstituteAll(el, attrib) ==
    LET vals == [k \in AttrKeys |->
                    IF el.attrib[k].present THEN Substitute(el.attrib[k], attrib)
                    ELSE [err |-> "none", value |-> Absent]]
        kids == [i \in 1..Len(el.children) |->
                    SubstituteAll(el.children[i], attrib)]
    IN  IF \E k \in AttrKeys : vals[k].err # "none"
        THEN [err |-> "KeyError", el |-> el]
        ELSE IF FirstErr(kids) # "none" THEN [err |-> FirstErr(kids), el |-> el]
        ELSE [err |-> "none",
              el |-> Element(el.tag, [k \in AttrKeys |-> vals[k].value],
                             [i \in 1..Len(kids) |-> kids[i].el])]

\* [err, el]: the template's first child with the preset's attributes
\* substituted
process_template(template, impl) ==
    IF Len(template.children) = 0 THEN [err |-> "IndexError", el |-> template]
    ELSE SubstituteAll(template.children[1], impl.attrib)

-----------------------------------------------------------------------------
(* app.py: ContextChainMap *)

\* A dict maps each name to a template element or to NoTemplate; a chain
\* map is the sequence of the ids of its dicts, the innermost first.
Names == {"a", "b", NoneStr}

NoTemplate == Element("<absent>", NoAttrs, <<>>)

EmptyDict == [n \in Names |-> NoTemplate]

\* push_ctx handing the caller's own chain map to the with block
push_ctx_self(chain, dicts) == [chain |-> chain, dicts |-> dicts]

\* push_ctx: the chain map handed to the with block and the dicts after it
push_ctx(chain, dicts) ==
    [chain |-> <<Len(dicts) + 1>> \o chain, dicts |-> Append(dicts, EmptyDict)]

\* name in reg
Contains(chain, dicts, name) ==
    \E i \in 1..Len(chain) : dicts[chain[i]][name] # NoTemplate

\* reg[name]: the entry of the first dict of the chain that holds the name
Lookup(chain, dicts, name) ==
    dicts[chain[CHOOSE i \in 1..Len(chain) :
                    /\ dicts[chain[i]][name] # NoTemplate
                    /\ \A j \in 1..(i - 1) : dicts[chain[j]][name] = NoTemplate]][name]

RECURSIVE RegisterFrom(_, _, _, _)
\* for template in element.findall("template"): reg[name] = template
RegisterFrom(children, i, chain, dicts) ==
    IF i > Len(children) THEN dicts
    ELSE IF children[i].tag # "template"
    THEN RegisterFrom(children, i + 1, chain, dicts)
    ELSE RegisterFrom(children, i + 1, chain,
            [dicts EXCEPT ![chain[1]][AttribGet(children[i], "name")] = children[i]])

-----------------------------------------------------------------------------
(* app.py: _walk *)

NoAction == [kind |-> "None"]

\* mslex.split of the process strings the documents use
MslexSplit(text) ==
    IF text = "" THEN <<>>
    ELSE IF text = "cmd /k" THEN <<"cmd", "/k">>
    ELSE <<text>>

RECURSIVE JoinNums(_)
\* the decimal numerals of ws separated by single spaces
JoinNums(ws) ==
    IF Len(ws) = 0 THEN ""
    ELSE IF Len(ws) = 1 THEN ToString(ws[1])
    ELSE ToString(ws[1]) \o " " \o JoinNums(Tail(ws))

\* the weight lists a weights attribute of the documents may denote
WeightLists == UNION {[1..n -> 0..MaxWeight] : n \in 1..(MaxPanes + 1)}

WeightTexts == [ws \in WeightLists |-> JoinNums(ws)]

\* the list each of these texts denotes
WeightsOfText ==
    [t \in {WeightTexts[ws] : ws \in WeightLists} |->
        CHOOSE ws \in WeightLists : WeightTexts[ws] = t]

\* list(map(float, text.split())): [err, ws]
ParseWeights(text) ==
    IF text \in DOMAIN WeightsOfText
    THEN [err |-> "none", ws |-> WeightsOfText[text]]
    ELSE IF text = " " THEN [err |-> "none", ws |-> <<>>]
    ELSE [err |-> "ValueError", ws |-> <<>>]

\* the tag dispatch of _walk for every tag but preset: [err, act]
Build(el, children) ==
    IF el.tag = "window" THEN [err |-> "none", act |-> Window(children)]
    ELSE IF el.tag = "tab"
    THEN IF Len(children) = 0
         THEN [err |-> "none",
               act |-> LayoutTab(Pane(NoneStr, NoneStr, NoneStr, <<>>, -1))]
         ELSE IF Len(children) = 1
         THEN [err |-> "none", act |-> LayoutTab(children[1])]
         ELSE [err |-> "TypeError", act |-> NoAction]
    ELSE IF el.tag \in {"row", "column"}
    THEN LET w == IF AttribGet(el, "weights") \in {NoneStr, ""}
                  THEN [err |-> "none", ws |-> <<>>]
                  ELSE ParseWeights(AttribGet(el, "weights"))
         IN  IF w.err # "none" THEN [err |-> w.err, act |-> NoAction]
             ELSE [err |-> "none",
                   act |-> PaneGroup(IF el.tag = "column" THEN "COLUMN" ELSE "ROW",
                                     children, w.ws)]
    ELSE IF el.tag = "pane"
    THEN [err |-> "none",
          act |-> Pane(NoneStr, AttribGet(el, "directory"), NoneStr,
                       IF el.attrib["process"].present
                       THEN MslexSplit(AttribGet(el, "process")) ELSE <<>>,
                       -1)]
    ELSE [err |-> "UnknownTag", act |-> NoAction]

Top == stack[Len(stack)]

\* the index of the next child of the frame that is walked, 0 if none is
NextChild(f) ==
    IF \E j \in f.next..Len(f.el.children) : f.el.children[j].tag # "template"
    THEN CHOOSE j \in f.next..Len(f.el.children) :
            /\ f.el.children[j].tag # "template"
            /\ \A h \in f.next..(j - 1) : f.el.children[h].tag = "template"
    ELSE 0

\* the frame of a call _walk(el, chain) up to the walk of its first child
Frame(el, chain, base) ==
    [el |-> el, reg |-> chain, base |-> base, next |-> 1, kids |-> <<>>,
     phase |-> "children", ret |-> NoAction]

Fail(e) ==
    /\ err' = e
    /\ pc' = "failed"
    /\ UNCHANGED <<doc, stack, scopes, result, sib, splits, opts, cmd, launched>>

\* _walk(el, chain) is called with the stack st and the dicts ds: the with
\* block is entered and the templates of el are registered
Call(el, chain, st, ds) ==
    IF Len(st) >= MaxDepth THEN Fail("RecursionError")
    ELSE LET ctx == push_ctx(chain, ds)
         IN  /\ scopes' = RegisterFrom(el.children, 1, ctx.chain, ctx.dicts)
             /\ stack' = Append(st, Frame(el, ctx.chain, Len(ds)))
             /\ pc' = "walk"
             /\ UNCHANGED <<doc, err, result, sib, splits, opts, cmd, launched>>

\* the innermost call returns v: its dicts are dropped and the caller
\* resumes
Return(v) ==
    LET rest == SubSeq(stack, 1, Len(stack) - 1)
        caller == rest[Len(rest)]
    IN  /\ scopes' = SubSeq(scopes, 1, Top.base)
        /\ IF Len(rest) = 0
           THEN /\ stack' = <<>>
                /\ result' = v
                /\ pc' = "walked"
           ELSE /\ stack' = [rest EXCEPT ![Len(rest)] =
                        IF caller.phase = "children"
                        THEN [caller EXCEPT !.kids = Append(@, v)]
                        ELSE [caller EXCEPT !.ret = v, !.phase = "returning"]]
                /\ UNCHANGED <<result, pc>>
        /\ UNCHANGED <<doc, err, sib, splits, opts, cmd, launched>>

\* main: result = _walk(root, ContextChainMap())
MainWalk ==
    /\ pc = "start"
    /\ Call(doc, <<1>>, <<>>, <<EmptyDict>>)

\* the list comprehension: the next child that is no template is walked
WalkChild ==
    /\ pc = "walk"
    /\ Top.phase = "children"
    /\ NextChild(Top) # 0
    /\ Call(Top.el.children[NextChild(Top)], Top.reg,
            [stack EXCEPT ![Len(stack)].next = NextChild(Top) + 1], scopes)

\* every child is walked and the tag is not preset: the Action is built and
\* returned, or the exception raised
Interpret ==
    /\ pc = "walk"
    /\ Top.phase = "children"
    /\ NextChild(Top) = 0
    /\ Top.el.tag # "preset"
    /\ LET b == Build(Top.el, Top.kids)
       IN  IF b.err # "none" THEN Fail(b.err) ELSE Return(b.act)

\* every child is walked and the tag is preset: the template is looked up
\* and resolved, and the resolved subtree walked with the same registry
Preset ==
    /\ pc = "walk"
    /\ Top.phase = "children"
    /\ NextChild(Top) = 0
    /\ Top.el.tag = "preset"
    /\ LET name == AttribGet(Top.el, "name")
       IN  IF ~Contains(Top.reg, scopes, name) THEN Fail("UnknownTemplate")
           ELSE LET r == process_template(Lookup(Top.reg, scopes, name), Top.el)
                IN  IF r.err # "none" THEN Fail(r.err)
                    ELSE Call(r.el, Top.reg,
                              [stack EXCEPT ![Len(stack)].phase = "preset"],
                              scopes)

\* return _walk(resolved, reg): the value of the inner call is returned
PresetReturn ==
    /\ pc = "walk"
    /\ Top.phase = "returning"
    /\ Return(Top.ret)

-----------------------------------------------------------------------------
(* app.py: main *)

\* result.command()
Compile ==
    /\ pc = "walked"
    /\ cmd' = command(result)
    /\ IF command(result).err = "none"
       THEN pc' = "compiled" /\ err' = err
       ELSE pc' = "failed" /\ err' = command(result).err
    /\ UNCHANGED <<doc, stack, scopes, result, sib, splits, opts, launched>>

\* subprocess.run reached after a failure as well
MayLaunch_always == pc \in {"compiled", "failed"}

\* subprocess.run is reached
MayLaunch == pc = "compiled"

Launch ==
    /\ MayLaunch
    /\ launched' = launched + 1
    /\ pc' = "done"
    /\ UNCHANGED <<doc, stack, scopes, err, result, sib, splits, opts, cmd>>

-----------------------------------------------------------------------------
(* The documents main is run on *)

El(tag, children) == Element(tag, NoAttrs, children)

PaneEl == El("pane", <<>>)

PaneDir(v) == Element("pane", Attrs([directory |-> v]), <<>>)

PresetEl(n) == Element("preset", Attrs([name |-> Text(n)]), <<>>)

PresetD(n, v) == Element("preset", Attrs([name |-> Text(n), d |-> v]), <<>>)

TemplateEl(n, children) == Element("template", Attrs([name |-> Text(n)]), children)

RECURSIVE Panes(_)
Panes(n) == IF n = 0 THEN <<>> ELSE Append(Panes(n - 1), PaneEl)

\* what a template may hold
TemplateBodies ==
    {<<PaneDir(Placeholder("d"))>>,
     <<PresetEl("a")>>,
     <<PresetD("b", Text("x"))>>,
     <<El("row", <<PresetD("b", Placeholder("d")), PaneEl>>)>>}

Templates ==
    {TemplateEl(n, b) : <<n, b>> \in {"a", "b"} \X TemplateBodies}
    \cup {TemplateEl("a", <<>>)}

\* no template, or one
MaybeTemplate == {<<>>} \cup {<<t>> : t \in Templates}

Refs ==
    {PaneDir(Text("d1")), PresetD("a", Text("x")), PresetEl("a"),
     PresetD("b", Text("y"))}

TabBodies ==
    Refs \cup {El("row", <<p, q>>) :
                  <<p, q>> \in {PresetD("a", Text("x")), PresetD("b", Text("y"))}
                               \X {PaneEl, PresetD("a", Text("x"))}}

\* templates declared by the window or by its first tab, referenced from the
\* first tab and from the second
ScopingDocs ==
    {El("window", tw \o <<El("tab", ta \o <<x>>), El("tab", <<y>>)>>) :
        <<tw, ta, x, y>> \in MaybeTemplate \X MaybeTemplate \X TabBodies \X Refs}

\* a row of n panes with every weights text, a column of n panes without
WeightsDocs ==
    {El("window", <<El("tab", <<Element("row", Attrs([weights |-> v]), Panes(n))>>)>>) :
        <<v, n>> \in ({Text(WeightTexts[ws]) : ws \in WeightLists}
                      \cup {Text(" "), Text("x"), [present |-> TRUE, parts |-> <<>>]})
                     \X (0..MaxPanes)}
    \cup {El("window", <<El("tab", <<El(g, Panes(n))>>)>>) :
            <<g, n>> \in {"row", "column"} \X (0..MaxPanes)}

\* other shapes of document
OtherDocs ==
    {El("window", <<>>),
     El("tab", <<PaneEl>>),
     PaneEl,
     El("row", <<PaneEl, PaneEl>>),
     El("foo", <<>>),
     El("window", <<El("tab", <<>>)>>),
     El("window", <<El("tab", <<PaneEl, PaneEl>>)>>),
     El("window", <<PaneEl>>),
     El("window", <<El("row", <<PaneEl, PaneEl>>)>>),
     El("window", <<El("tab", <<El("foo", <<>>)>>)>>),
     El("window", <<El("tab", <<El("row", <<El("tab", <<PaneEl>>), PaneEl>>)>>)>>),
     El("window", <<El("tab", <<El("row", <<PaneEl, El("tab", <<PaneEl>>)>>)>>)>>),
     El("window", <<El("tab", <<Element("pane",
            Attrs([process |-> Text("cmd /k"), directory |-> Text("d1")]), <<>>)>>)>>),
     El("window", <<El("tab", <<Element("pane",
            Attrs([process |-> Text("")]), <<PaneEl>>)>>)>>),
     El("window", <<El("tab", <<El("row",
            <<El("column", <<PaneDir(Text("d1")), PaneDir(Text("d2"))>>),
              PaneDir(Text("d3")),
              El("column", <<PaneDir(Text("d4")),
                             El("row", <<PaneDir(Text("d5")), PaneDir(Text("d6"))>>)>>)>>)>>)>>),
     El("window", <<El("tab", <<El("row",
            <<El("column", <<El("row", <<PaneDir(Text("d1")), PaneDir(Text("d2"))>>)>>),
              PaneDir(Text("d3"))>>)>>)>>),
     El("window", <<El("tab", <<Element("preset", Attrs([name |-> Text("a")]),
            <<TemplateEl("a", <<PaneDir(Text("d1"))>>)>>)>>)>>),
     El("window", <<TemplateEl("a", <<TemplateEl("b", <<PaneEl>>)>>),
                    El("tab", <<PresetEl("a")>>)>>),
     El("window", <<TemplateEl("a", <<PaneDir(Text("d1"))>>),
                    TemplateEl("a", <<PaneDir(Text("d2"))>>),
                    El("tab", <<TemplateEl("a", <<PaneDir(Text("d3"))>>),
                                PresetEl("a")>>),
                    El("tab", <<PresetEl("a")>>)>>),
     El("window", <<Element("template", NoAttrs, <<PaneDir(Text("d1"))>>),
                    El("tab", <<El("preset", <<>>)>>)>>),
     El("window", <<TemplateEl("a", <<Element("row", Attrs([weights |-> Placeholder("w")]),
                                              <<PaneEl, PaneDir(Placeholder("name"))>>)>>),
                    El("tab", <<Element("preset",
                        Attrs([name |-> Text("a"), w |-> Text("1 2")]), <<>>)>>)>>),
     El("window", <<TemplateEl("a", <<El("row", <<PresetEl("b"), PaneEl>>)>>),
                    El("tab", <<TemplateEl("b", <<El("column", <<PresetD("a", Text("x"))>>)>>),
                                PresetEl("a")>>)>>)}

Documents == ScopingDocs \cup WeightsDocs \cup OtherDocs

Init ==
    /\ doc \in Documents
    /\ pc = "start"
    /\ stack = <<>> /\ scopes = <<>>
    /\ err = "none" /\ result = NoAction
    /\ sib = NotRun /\ opts = NotRun /\ cmd = NotRun
    /\ splits = NoWeights
    /\ launched = 0

Next ==
    \/ MainWalk
    \/ WalkChild
    \/ Interpret
    \/ Preset
    \/ PresetReturn
    \/ Compile
    \/ Launch

Spec == Init /\ [][Next]_vars

-----------------------------------------------------------------------------
(* Properties of the layout compiler, checked under LayoutSpec *)

RECURSIVE SplitCmds(_, _)
\* the token list cut at every ";": acc is the command being collected
SplitCmds(toks, acc) ==
    IF Len(toks) = 0 THEN <<acc>>
    ELSE IF Head(toks) = ";" THEN <<acc>> \o SplitCmds(Tail(toks), <<>>)
    ELSE SplitCmds(Tail(toks), Append(acc, Head(toks)))

Cmds(toks) == SplitCmds(toks, <<>>)

RECURSIVE CountTok(_, _)
CountTok(toks, t) ==
    IF Len(toks) = 0 THEN 0
    ELSE (IF Head(toks) = t THEN 1 ELSE 0) + CountTok(Tail(toks), t)

RECURSIVE FirstLeaf(_)
FirstLeaf(a) == IF a.kind = "Pane" THEN a ELSE FirstLeaf(a.panes[1])

RECURSIVE LeafDirs(_)
\* the directories of the leaves of a tree, in order
LeafDirs(a) ==
    IF a.kind = "Pane" THEN <<a.starting_directory>>
    ELSE Flatten([i \in 1..Len(a.panes) |-> LeafDirs(a.panes[i])])

\* the commands that carry the directory d
CmdsWithDir(cmds, d) ==
    {c \in 1..Len(cmds) :
        \E j \in 1..(Len(cmds[c]) - 1) : cmds[c][j] = "-d" /\ cmds[c][j + 1] = d}

\* the ten-thousandths nearest to a/b
Nearest(a, b) ==
    {t \in {(10000 * a) \div b, ((10000 * a) \div b) + 1} :
        (IF 10000 * a >= t * b THEN 10000 * a - t * b ELSE t * b - 10000 * a) * 2 <= b}

\* the group of the first tab has been compiled by sibling_options
GroupCompiled == pc = "layout" /\ TabPane.kind = "PaneGroup" /\ sib # NotRun

\* the commands creating the root panes of the group's 2nd, 3rd, ... panes
\* are there, once each and in this order
OwnSplitsInOrder(g, cmds) ==
    /\ \A i \in 2..Len(g.panes) :
            Cardinality(CmdsWithDir(cmds, FirstLeaf(g.panes[i]).starting_directory)) = 1
    /\ \A i \in 2..(Len(g.panes) - 1) :
            \A c \in CmdsWithDir(cmds, FirstLeaf(g.panes[i]).starting_directory) :
            \A e \in CmdsWithDir(cmds, FirstLeaf(g.panes[i + 1]).starting_directory) :
                c < e

\* the ratio token of the command creating the root pane of the i-th pane
OwnRatio(g, cmds, i) ==
    cmds[CHOOSE c \in CmdsWithDir(cmds, FirstLeaf(g.panes[i]).starting_directory) :
            TRUE][4]

\* C1: a PaneGroup of exactly one leaf pane compiles without error: its
\* sibling_options() is the empty split sequence and its options() is exactly
\* the token list of that pane's own options()
C1_SinglePaneGroup ==
    (/\ pc = "layout"
     /\ TabPane.kind = "PaneGroup"
     /\ Len(TabPane.panes) = 1
     /\ TabPane.panes[1].kind = "Pane")
    => /\ sib # NotRun => sib = Ok(<<>>)
       /\ opts # NotRun => opts = Ok(PaneOptions(TabPane.panes[1]))

\* C2: a PaneGroup of n >= 1 panes without weights emits exactly n-1 split
\* commands for its own panes, the i-th (from 0) with the ratio
\* (n-i-1)/(n-i) rounded to 4 decimal digits
C2_EvenSplitRatios ==
    (GroupCompiled /\ Len(TabPane.weights) = 0)
    => /\ sib.err = "none"
       /\ OwnSplitsInOrder(TabPane, Cmds(sib.toks))
       /\ \A i \in 2..Len(TabPane.panes) :
            \E t \in Nearest(Len(TabPane.panes) - i + 1, Len(TabPane.panes) - i + 2) :
                OwnRatio(TabPane, Cmds(sib.toks), i) = RatioStr(t)

\* C2 for n >= 2 only
C2_EvenSplitRatios_From2 ==
    (GroupCompiled /\ Len(TabPane.panes) >= 2) => C2_EvenSplitRatios

\* a <<num, den>> rational times another
RatMul(x, y) == <<x[1] * y[1], x[2] * y[2]>>

RECURSIVE RatProd(_, _)
\* the product of the first k members of a sequence of rationals
RatProd(rs, k) == IF k = 0 THEN <<1, 1>> ELSE RatMul(RatProd(rs, k - 1), rs[k])

\* the share of the group's space pane i is left with when the splits with
\* the ratios rs are applied in order, each to the space the previous left
ShareOf(rs, i) ==
    IF i > Len(rs) THEN RatProd(rs, Len(rs))
    ELSE RatMul(RatProd(rs, i - 1), <<rs[i][2] - rs[i][1], rs[i][2]>>)

\* the ten-thousandths a ratio token denotes
RatioValue(tok) == CHOOSE t \in 0..10000 : RatioStr(t) = tok

\* the group of the first tab has positive weights, one per pane, and n >= 2
WeightedGroup ==
    /\ GroupCompiled
    /\ Len(TabPane.panes) >= 2
    /\ Len(TabPane.weights) = Len(TabPane.panes)
    /\ \A i \in 1..Len(TabPane.weights) : TabPane.weights[i] > 0

\* the i-th emitted ratio is 1 - w[i]/sum(w[i:]) rounded to 4 digits
EmittedRatiosRounded ==
    /\ sib.err = "none"
    /\ OwnSplitsInOrder(TabPane, Cmds(sib.toks))
    /\ \A i \in 1..(Len(TabPane.panes) - 1) :
        \E t \in Nearest(SumFrom(TabPane.weights, i - 1) - TabPane.weights[i],
                         SumFrom(TabPane.weights, i - 1)) :
            OwnRatio(TabPane, Cmds(sib.toks), i + 1) = RatioStr(t)

\* C3 as stated, for groups of up to 3 panes (the shares after more splits
\* have denominators beyond the integers): the emitted ratios are
\* 1 - w[i]/sum(w[i:]) and, applied in order, leave pane i with exactly
\* w[i]/sum(w) of the group's space
C3_ExactShares ==
    (WeightedGroup /\ Len(TabPane.panes) <= 3)
    => /\ EmittedRatiosRounded
       /\ LET rs == [i \in 1..(Len(TabPane.panes) - 1) |->
                        <<RatioValue(OwnRatio(TabPane, Cmds(sib.toks), i + 1)), 10000>>]
          IN  \A i \in 1..Len(TabPane.panes) :
                ShareOf(rs, i)[1] * SumFrom(TabPane.weights, 0)
                    = TabPane.weights[i] * ShareOf(rs, i)[2]

\* C3 amended: the split weight computed for split i is 1 - w[i]/sum(w[i:])
\* and the emitted ratio is that value rounded to 4 decimal digits (weights
\* [1,1,2] give 0.75 and 0.6667); the split weights before rounding, applied
\* in order, leave pane i with exactly w[i]/sum(w) of the group's space
C3_SplitWeights ==
    WeightedGroup
    => /\ EmittedRatiosRounded
       /\ splits.err = "none"
       /\ Len(splits.ws) = Len(TabPane.panes) - 1
       /\ \A i \in 1..Len(splits.ws) :
            splits.ws[i][1] * SumFrom(TabPane.weights, i - 1)
                = (SumFrom(TabPane.weights, i - 1) - TabPane.weights[i]) * splits.ws[i][2]
       /\ \A i \in 1..Len(TabPane.panes) :
            ShareOf(splits.ws, i)[1] * SumFrom(TabPane.weights, 0)
                = TabPane.weights[i] * ShareOf(splits.ws, i)[2]
       /\ TabPane.weights = <<1, 1, 2>>
            => /\ OwnRatio(TabPane, Cmds(sib.toks), 2) = "0.75"
               /\ OwnRatio(TabPane, Cmds(sib.toks), 3) = "0.6667"

\* the weights [1,1,2] have been compiled to 0.75 and 0.6667
C3_Witness ==
    /\ WeightedGroup
    /\ TabPane.weights = <<1, 1, 2>>
    /\ sib.err = "none"
    /\ CountTok(sib.toks, "0.6667") = 1
    /\ CountTok(sib.toks, "0.75") = 1

\* every tab of the window holds a single pane whose options have no ";"
PlainTabs ==
    \A i \in 1..Len(result.subcmds) :
        /\ result.subcmds[i].pane.kind = "Pane"
        /\ CountTok(PaneOptions(result.subcmds[i].pane), ";") = 0

\* C5: a Window of k >= 1 tabs of single panes compiles to the new-window
\* tokens and the first tab's command, then the other tabs' commands, with
\* exactly k-1 separators, one between two consecutive commands and none
\* before the first
C5_Separators ==
    (pc = "layout" /\ cmd # NotRun /\ PlainTabs)
    => /\ cmd.err = "none"
       /\ CountTok(cmd.toks, ";") = Len(result.subcmds) - 1
       /\ Cmds(cmd.toks) =
            [i \in 1..Len(result.subcmds) |->
                (IF i = 1 THEN <<"wt", "-w", "0">> ELSE <<>>)
                \o <<"nt">> \o PaneOptions(result.subcmds[i].pane)]

\* a window of 3 such tabs has been compiled, with 2 separators
C5_Witness ==
    /\ pc = "layout" /\ cmd # NotRun /\ PlainTabs
    /\ Len(result.subcmds) = 3
    /\ CountTok(cmd.toks, ";") = 2

\* a pane that is a group of more than one pane
Many(a) == a.kind = "PaneGroup" /\ Len(a.panes) > 1

RECURSIVE ExpectedOrder(_)
\* the order the claim describes, each command cut down to its kind, its
\* direction and (for a split) the options of the pane it creates
ExpectedOrder(g) ==
    Flatten([i \in 1..Len(g.panes) |->
        IF i < Len(g.panes)
        THEN <<[k |-> "sp", a |-> IF g.layout = "ROW" THEN "-V" ELSE "-H",
                b |-> PaneOptions(FirstLeaf(g.panes[i + 1]))]>>
             \o (IF Many(g.panes[i])
                 THEN <<[k |-> "mf", a |-> IF g.layout = "ROW" THEN "left" ELSE "up",
                         b |-> <<>>]>>
                      \o ExpectedOrder(g.panes[i])
                      \o <<[k |-> "mf", a |-> IF g.layout = "ROW" THEN "right" ELSE "down",
                            b |-> <<>>]>>
                 ELSE <<>>)
        ELSE IF Many(g.panes[i]) THEN ExpectedOrder(g.panes[i]) ELSE <<>>])

\* an emitted command cut down in the same way
Shape(c) ==
    IF c[1] = "sp" THEN [k |-> "sp", a |-> c[2], b |-> SubSeq(c, 5, Len(c))]
    ELSE [k |-> c[1], a |-> c[2], b |-> SubSeq(c, 3, Len(c))]

\* C8: for every adjacent pair (current, next) the split creating next's
\* root pane comes first; if current is a group of more than one pane its
\* nested splits follow at once, between a move-focus to the previous
\* direction and one to the next direction; the nested splits of the last
\* pane are emitted with no move-focus around them
C8_SplitBeforeNested ==
    (GroupCompiled /\ sib.err = "none")
    => [i \in 1..Len(Cmds(sib.toks)) |-> Shape(Cmds(sib.toks)[i])]
         = ExpectedOrder(TabPane)

\* a group has been compiled whose first pane and whose last pane are both
\* groups of several panes
C8_Witness ==
    /\ GroupCompiled /\ sib.err = "none"
    /\ Len(TabPane.panes) >= 2
    /\ Many(TabPane.panes[1])
    /\ Many(TabPane.panes[Len(TabPane.panes)])

\* C9: the command of a tab holding a tree of L leaves creates every leaf
\* once: the first leaf by the new-tab command and each other leaf by one
\* split command, L-1 split commands in all
C9_EveryLeafCreated ==
    (/\ pc = "layout" /\ cmd # NotRun /\ cmd.err = "none"
     /\ Len(result.subcmds) = 1
     /\ \A i \in 1..Len(LeafDirs(TabPane)) : LeafDirs(TabPane)[i] # NoneStr)
    => /\ CountTok(cmd.toks, "sp") = Len(LeafDirs(TabPane)) - 1
       /\ \A i \in 1..Len(LeafDirs(TabPane)) :
            Cardinality(CmdsWithDir(Cmds(cmd.toks), LeafDirs(TabPane)[i])) = 1

-----------------------------------------------------------------------------
(* Properties of the walk and of main, checked under Spec *)

\* the templates an element declares: for each name its last template child
\* of that name
Declared(el) ==
    [n \in Names |->
        LET ds == {i \in 1..Len(el.children) :
                      /\ el.children[i].tag = "template"
                      /\ AttribGet(el.children[i], "name") = n}
        IN  IF ds = {} THEN NoTemplate
            ELSE el.children[CHOOSE i \in ds : \A j \in ds : j <= i]]

\* the chain map the k-th call of the stack was called with
CallerChain(k) == IF k = 1 THEN <<1>> ELSE stack[k - 1].reg

\* the calls of the stack whose element declares the name
Declaring(n) == {j \in 1..Len(stack) : Declared(stack[j].el)[n] # NoTemplate}

\* C4: a template declared by a node is found by the presets in the node's
\* subtree, the innermost declaration first; a preset none of whose
\* ancestors declares the name fails with the unknown-template error, also
\* when a sibling subtree declares it; the scope a walk is called with holds
\* the same entries all through that walk
C4_LexicalScoping ==
    /\ Len(scopes) >= 1 => scopes[1] = EmptyDict
    /\ \A k \in 1..Len(stack) :
        /\ Tail(stack[k].reg) = CallerChain(k)
        /\ \A i \in 1..Len(CallerChain(k)) : CallerChain(k)[i] # stack[k].reg[1]
        /\ scopes[stack[k].reg[1]] = Declared(stack[k].el)
        /\ (stack[k].phase \in {"preset", "returning"}
             \/ (k = Len(stack) /\ err \in {"KeyError", "IndexError"}))
           => /\ Declaring(AttribGet(stack[k].el, "name")) # {}
              /\ k < Len(stack) /\ stack[k].phase = "preset"
                 => stack[k + 1].el =
                      process_template(
                        Declared(stack[CHOOSE j \in Declaring(AttribGet(stack[k].el, "name")) :
                                    \A h \in Declaring(AttribGet(stack[k].el, "name")) : h <= j].el)
                            [AttribGet(stack[k].el, "name")],
                        stack[k].el).el
    /\ err = "UnknownTemplate"
        => /\ Top.el.tag = "preset"
           /\ Declaring(AttribGet(Top.el, "name")) = {}

\* a preset of the second tab fails with the unknown-template error for a
\* name the first tab declares and a preset of the first tab has found
C4_Witness ==
    /\ err = "UnknownTemplate"
    /\ Len(stack) >= 2
    /\ Len(stack[1].kids) = 1
    /\ \E i \in 1..Len(doc.children) :
        /\ doc.children[i].tag = "tab"
        /\ doc.children[i] # stack[2].el
        /\ Declared(doc.children[i])[AttribGet(Top.el, "name")] # NoTemplate
        /\ \E c \in 1..Len(doc.children[i].children) :
            /\ doc.children[i].children[c].tag = "preset"
            /\ AttribGet(doc.children[i].children[c], "name") = AttribGet(Top.el, "name")

\* C6: the process is launched at most once, and only after the walk and the
\* compilation have both ended without error; after a failure of either it
\* is never launched
C6_LaunchOnceAfterSuccess ==
    /\ launched <= 1
    /\ launched = 1
        => /\ pc = "done"
           /\ err = "none"
           /\ Len(stack) = 0
           /\ result # NoAction
           /\ cmd.err = "none"
           /\ cmd = command(result)
    /\ (err # "none" \/ pc = "failed") => launched = 0

\* the process has been launched
C6_Witness == launched = 1 /\ pc = "done" /\ Len(cmd.toks) > 3

RECURSIVE WeightsWellFormed(_)
\* every group of the tree has no weights, or one positive weight per pane
WeightsWellFormed(a) ==
    IF a.kind = "PaneGroup"
    THEN /\ \/ Len(a.weights) = 0
            \/ /\ Len(a.weights) = Len(a.panes)
               /\ \A i \in 1..Len(a.weights) : a.weights[i] > 0
         /\ \A i \in 1..Len(a.panes) : WeightsWellFormed(a.panes[i])
    ELSE IF a.kind = "LayoutTab" THEN WeightsWellFormed(a.pane)
    ELSE IF a.kind = "Window"
    THEN \A i \in 1..Len(a.subcmds) : WeightsWellFormed(a.subcmds[i])
    ELSE TRUE

\* C7: a weights attribute with fewer or more values than the node has
\* panes, or with a value that is not positive, makes the compilation fail:
\* every PaneGroup compiled to a command has no weights or one positive
\* weight per pane
C7_MalformedWeightsRejected ==
    (pc \in {"compiled", "done"} /\ cmd.err = "none")
    => WeightsWellFormed(result)

\* the templates a call of the stack sees, by name
View(k) ==
    [n \in Names |->
        IF Contains(stack[k].reg, scopes, n) THEN Lookup(stack[k].reg, scopes, n)
        ELSE NoTemplate]

\* C10: the walk of a finite tree ends after finitely many calls, in an
\* Action tree or in a declared error, also when a template refers to
\* itself or templates refer to each other: the recursion is never
\* exhausted, and no call walks the element an enclosing call walks with
\* the same templates in sight
C10_WalkTerminates ==
    /\ err # "RecursionError"
    /\ \A i, j \in 1..Len(stack) :
        i < j => ~(stack[i].el = stack[j].el /\ View(i) = View(j))

=============================================================================
